---- MODULE Spec2Model ----
(***************************************************************************)
(* A model of miow's overlapped I/O layer: Handle (src/src/handle.rs), the *)
(* socket extension traits (src/src/net.rs) and the completion port they   *)
(* report to.  The kernel side (the outcome of each OS call, the moment a  *)
(* pending operation finishes) is the environment: every outcome the OS    *)
(* can produce is a nondeterministic input of the action that makes the    *)
(* call.                                                                   *)
(***************************************************************************)
EXTENDS Integers, Sequences, FiniteSets, TLC

(* ------------------------------ bounds --------------------------------- *)

\* Number of overlapped records the callers own; each is used for one call.
MaxOps == 2
\* Longest buffer a caller passes, and longest message a peer sends.
MaxLen == 2
\* Number of records used where the byte counts are what is examined.
XferOps == 1
\* Number of WsaExtension::get calls the threads make between them.
MaxGets == 3

(* ------------------------- program constants --------------------------- *)

ERROR_IO_PENDING == 997
WSA_IO_PENDING == 997
SOCKET_ERROR == -1
TRUE_ == 1
\* The zero a freshly created WsaExtension holds (ATOMIC_USIZE_INIT).
ATOMIC_USIZE_INIT == 0
\* Address families and structure sizes of the Windows target.
AF_INET == 2
AF_INET6 == 23
SizeofFamily == 2
SizeofSockaddrIn == 16
SizeofSockaddrIn6 == 28
SizeofStorage == 128

(* ------------------------------ universe ------------------------------- *)

Records == 1..MaxOps
\* A record no caller passed: where a call would point the kernel if it
\* handed over a pointer that is not the caller's own.
AllRecs == 0..MaxOps
StrayRec == CHOOSE r \in AllRecs : r \notin Records

HandleRes == {"h1"}
StreamRes == {"tcp1"}
DgramRes == {"udp1"}
ListenRes == {"lst1"}
BuilderRes == {"bld1"}
\* The TcpBuilder handed to the accept made with record r: a fresh one for
\* each call.
AccOf(r) == "acc" \o ToString(r)
AcceptSocks == {AccOf(r) : r \in Records}
Resources ==
    HandleRes \cup StreamRes \cup DgramRes \cup ListenRes \cup BuilderRes

Ports == {"p1", "p2"}
Tokens == {1, 2}
Threads == {"t1", "t2"}

\* Failure codes other than the pending code that a handle call can leave
\* in GetLastError (ERROR_INVALID_HANDLE, ERROR_BROKEN_PIPE) ...
HandleFailCodes == {6, 109}
\* ... and a socket call in WSAGetLastError (WSAECONNRESET, WSAENOTCONN).
SocketFailCodes == {10054, 10057}
\* The address of the entry point the provider hands out.
ProviderPtr == 4096

RecvKinds == {"hread", "read", "recv_from"}
SendKinds == {"hwrite", "write", "send_to"}

(* ---------------------------- io::Result ------------------------------- *)

Ok(v) == [tag |-> "Ok", val |-> v]
Err(e) == [tag |-> "Err", code |-> e]
Panic == [tag |-> "Panic"]
NotCalled == [tag |-> "None"]

IsOk(x, v) == x.tag = "Ok" /\ x.val = v
IsErr(x) == x.tag = "Err"

(* ------------------------- pure translations --------------------------- *)

\* last_err without its test for the pending code.
last_err_NoPending(err) == Err(err)

\* last_err taking every failure for a pending operation.
last_err_AllPending(err) == Ok(FALSE)

\* net.rs last_err: WSAGetLastError() is the argument.
last_err(err) ==
    IF err = WSA_IO_PENDING THEN Ok(FALSE) ELSE Err(err)

\* cvt reporting the last error without asking whether it is the pending
\* code.
cvt_Direct(i, err) ==
    IF i = SOCKET_ERROR THEN Err(err) ELSE Ok(TRUE)

\* net.rs cvt: i is the c_int the socket call returned.
cvt(i, err) ==
    IF i = SOCKET_ERROR THEN last_err(err) ELSE Ok(TRUE)

\* The crate root's cvt, called as ::cvt from handle.rs: a BOOL of zero is
\* the failure, reported with the thread's last error.
crate_cvt(i, err) ==
    IF i = 0 THEN Err(err) ELSE Ok(i)

\* The match with its guard on the error code left out.
HandleOverlappedResult_NoGuard(res) ==
    IF res.tag = "Ok" THEN Ok(TRUE) ELSE Ok(FALSE)

\* The match of Handle::read_overlapped / write_overlapped on ::cvt's result.
HandleOverlappedResult(res) ==
    IF res.tag = "Ok" THEN Ok(TRUE)
    ELSE IF res.code = ERROR_IO_PENDING THEN Ok(FALSE)
    ELSE res

(* ------------------------------- state --------------------------------- *)

VARIABLES
    debug,     \* cfg!(debug_assertions) of the build; never changes
    ext,       \* the AtomicUsize of each WsaExtension static
    reg,       \* kernel: the port and token each resource is associated with
    closed,    \* resources that are not open (never opened, or dropped)
    portRet,   \* what the latest CompletionPort call returned
    call,      \* per record: the overlapped call the caller made with it,
               \* what the OS call inside it reported, and what it returned
    bufs,      \* per record: the memory of the buffer passed with it
    abufs,     \* per record: the address buffer passed with it (a
               \* SocketAddrBuf, an AcceptAddrsBuf) and the lengths passed
    net,       \* the addresses of the sockets at both ends; never changes
    ops,       \* kernel: the operation each overlapped record tracks
    wire,      \* per kernel operation: the bytes that left for the peer
    queue,     \* kernel: each port's queue of completion packets
    notified,  \* per record: completion packets the kernel queued for it
    ndeliv,    \* per record: how many waits returned its completion
    status,    \* per record: the CompletionStatus a wait returned for it
    hnd,       \* per Handle: whether the wrapper owns its raw value, the
               \* raw value, and what CloseHandle answered its drop
    closes,    \* kernel: per raw handle, the CloseHandle calls made on it
    hret,      \* what the latest synchronous Handle method returned
    codec,     \* an address, the memory it is encoded in, the length
               \* passed with it and what decoding returned
    gets,      \* per thread: the WsaExtension::get call it is running
    ghist,     \* what the get calls have done to each extension's slot
    bld,       \* per TcpBuilder: whether it is bound, and whether it still
               \* holds its socket or has given it to a TcpStream
    parsed     \* what the latest AcceptAddrsBuf::parse returned, and the
               \* entry point it invoked

handleVars == <<hnd, closes, hret>>
codecVars == <<codec>>
resolveVars == <<gets, ghist>>
connVars == <<bld, parsed>>
auxVars == <<handleVars, codecVars, resolveVars, connVars>>
ioVars == <<debug, net, ext, reg, closed, portRet, call, bufs, abufs, ops, wire, queue,
           notified, ndeliv, status>>
vars == <<ioVars, auxVars>>
kernelVars == <<ops, wire, queue, notified, bufs, abufs>>
waitVars == <<ndeliv, status, portRet>>

ExtIds == {"ACCEPTEX", "CONNECTEX", "GETACCEPTEXSOCKADDRS"}
NoReg == [port |-> "none", token |-> 0]
NoOp == [st |-> "free", res |-> "none", kind |-> "none", len |-> 0,
         buf |-> 0, n |-> 0, k |-> 0]
NoOs == [ret |-> 0, err |-> 0]
\* No address buffer goes with a record, or with its call.
NoAddrBuf == [mem |-> <<>>, len |-> 0, args |-> <<>>]
NoCall == [fn |-> "none", res |-> "none", cap |-> 0, atreg |-> FALSE,
           os |-> NoOs, ret |-> NotCalled]
NoStatus == [token |-> 0, bytes |-> 0, ovl |-> 0, by |-> "none"]
NoPortRet == [fn |-> "none", out |-> "none"]

\* The raw HANDLE values a Handle is created with.
RawHandles == {64, 68}
FirstRaw == CHOOSE x \in RawHandles : \A y \in RawHandles : x <= y
HandleMethods == {"raw", "into_raw", "read", "write", "drop"}
\* A plain (not io::Result) value returned, and the () of a drop.
Val(v) == [tag |-> "Val", val |-> v]
Unit == [tag |-> "Unit"]
NoHandle == [st |-> "none", raw |-> 0, close |-> "none"]
Owned(raw) == [st |-> "owned", raw |-> raw, close |-> "none"]

Min(a, b) == IF a <= b THEN a ELSE b

\* The bytes a caller writes, and the bytes a peer sends.
OwnData(n) == [i \in 1..n |-> i]
PeerData(n) == [i \in 1..n |-> 10 + i]
Zeroed(n) == [i \in 1..n |-> 0]

\* The kernel copying the first n received bytes into the buffer at b.
Fill(b, data, n) ==
    [i \in 1..Len(b) |-> IF i <= n /\ i <= Len(data) THEN data[i] ELSE b[i]]
\* The kernel reading n bytes starting at the buffer b; 99 stands for
\* whatever memory holds past the buffer's end.
MemRead(b, n) ==
    [i \in 1..n |-> IF i <= Len(b) THEN b[i] ELSE 99]

\* The outcomes of an OS call that starts an overlapped operation: it
\* finished at once, it was queued (the pending code is the last error), or
\* it failed with another code and started nothing.
OsOutcomes(pending, failCodes) ==
    {[how |-> "sync", err |-> 0], [how |-> "pend", err |-> pending]}
        \cup {[how |-> "fail", err |-> c] : c \in failCodes}
SocketOutcomes == OsOutcomes(WSA_IO_PENDING, SocketFailCodes)
HandleOutcomes == OsOutcomes(ERROR_IO_PENDING, HandleFailCodes)
\* A Winsock call's c_int, and a kernel32 / extension call's BOOL.
SockRet(out) == IF out.how = "sync" THEN 0 ELSE SOCKET_ERROR
BoolRet(out) == IF out.how = "sync" THEN TRUE_ ELSE 0

\* The sets of resources a program may have open from the start.
Worlds == {{res} : res \in Resources \ BuilderRes}

\* The build mode shows only through WsaExtension::get, which only a
\* listener's accept reaches here.
IoInitIn(worlds) ==
    /\ closed \in {Resources \ L : L \in worlds}
    /\ debug \in (IF ListenRes \subseteq closed THEN {FALSE} ELSE BOOLEAN)
    /\ ext = [g \in ExtIds |-> ATOMIC_USIZE_INIT]
    /\ reg = [r \in Resources |-> NoReg]
    /\ portRet = NoPortRet
    /\ call = [r \in Records |-> NoCall]
    /\ bufs = [r \in Records |-> <<>>]
    /\ abufs = [r \in Records |-> NoAddrBuf]
    /\ ops = [r \in AllRecs |-> NoOp]
    /\ wire = [r \in AllRecs |-> <<>>]
    /\ queue = [p \in Ports |-> <<>>]
    /\ notified = [r \in AllRecs |-> 0]
    /\ ndeliv = [r \in AllRecs |-> 0]
    /\ status = [r \in AllRecs |-> NoStatus]

IoInit == IoInitIn(Worlds)

\* Handle::new(raw) for each handle the program has open.
HandleInit(raws) ==
    /\ hnd \in {[h \in HandleRes |->
                    IF h \in closed THEN NoHandle ELSE Owned(raw)] :
                 raw \in raws}
    /\ closes = [x \in RawHandles |-> 0]
    /\ hret = [f \in HandleMethods |-> NotCalled]

(* ---------------------------- address codec ---------------------------- *)

\* std::net::SocketAddr values; a V4 address carries zeros where a V6 one
\* carries flow-info and scope-id.
V4(ip, port) ==
    [fam |-> "V4", ip |-> ip, port |-> port, flow |-> 0, scope |-> 0]
V6(ip, port, flow, scope) ==
    [fam |-> "V6", ip |-> ip, port |-> port, flow |-> flow, scope |-> scope]
SamplePorts == {0, 80, 258, 65535}
SampleV4 == {V4(ip, p) : ip \in {<<127, 0, 0, 1>>, <<1, 2, 3, 4>>},
                         p \in SamplePorts}
SampleV6 ==
    {V6(ip, p, f, sc) :
        ip \in {<<0, 0, 0, 0, 0, 0, 0, 1>>,
                <<8193, 3512, 0, 258, 0, 0, 65535, 7>>},
        p \in SamplePorts, f \in {0, 16909060}, sc \in {0, 5}}
SampleAddrs == SampleV4 \cup SampleV6

Some(a) == [tag |-> "Some", val |-> a]
NoneAddr == [tag |-> "NoAddr"]

\* Big-endian bytes of a 16-bit and of a 32-bit value.
BE16(x) == <<x \div 256, x % 256>>
BE32(x) == <<x \div 16777216, (x \div 65536) % 256, (x \div 256) % 256,
             x % 256>>
\* The bytes of a 16-bit value as the little-endian host stores it.
HostOrder16(x) == <<x % 256, x \div 256>>
Zeros(n) == [i \in 1..n |-> 0]
RECURSIVE Segs(_)
Segs(ip) == IF ip = <<>> THEN <<>> ELSE BE16(Head(ip)) \o Segs(Tail(ip))

\* The bytes std keeps inside a SocketAddrV4 (a sockaddr_in) and a
\* SocketAddrV6 (a sockaddr_in6): family in host order, the rest in network
\* order.
StdLayout(a) ==
    IF a.fam = "V4"
    THEN HostOrder16(AF_INET) \o BE16(a.port) \o a.ip \o Zeros(8)
    ELSE HostOrder16(AF_INET6) \o BE16(a.port) \o BE32(a.flow)
            \o Segs(a.ip) \o BE32(a.scope)

\* net.rs socket_addr_to_ptrs: the address of the inner structure and its
\* size.
socket_addr_to_ptrs(a) ==
    [mem |-> StdLayout(a),
     len |-> IF a.fam = "V4" THEN SizeofSockaddrIn ELSE SizeofSockaddrIn6]

\* A little-endian load of 2 and of 4 bytes at offset o.
LE16(m, o) == m[o + 1] + 256 * m[o + 2]
LE32(m, o) ==
    m[o + 1] + 256 * m[o + 2] + 65536 * m[o + 3] + 16777216 * m[o + 4]

\* ntoh that takes the loaded value as it is.
ntoh_NoSwap(i, w) == i

\* net.rs ntoh: from_be of a w-byte integer on a little-endian target.
ntoh(i, w) ==
    IF w = 2 THEN (i % 256) * 256 + i \div 256
    ELSE (i % 256) * 16777216 + ((i \div 256) % 256) * 65536
            + ((i \div 65536) % 256) * 256 + i \div 16777216

\* len as usize: a negative c_int becomes a value above every size.
AsUsize(len) == IF len >= 0 THEN len ELSE 2147483647
\* x as u8.
AsU8(x) == x % 256

Decoded(res, reads) == [res |-> res, reads |-> reads]
DecodeV4(m) ==
    LET ip == ntoh(LE32(m, 4), 4)
    IN  V4(<<AsU8(ip \div 16777216), AsU8(ip \div 65536), AsU8(ip \div 256),
             AsU8(ip)>>,
           ntoh(LE16(m, 2), 2))
DecodeV6(m) ==
    V6([i \in 1..8 |-> ntoh(LE16(m, 8 + 2 * (i - 1)), 2)],
       ntoh(LE16(m, 2), 2), ntoh(LE32(m, 4), 4), ntoh(LE32(m, 24), 4))

\* The decoder trusting the family tag without looking at the length again.
ptrs_to_socket_addr_NoGuard(m, len) ==
    IF AsUsize(len) < SizeofFamily THEN Decoded(NoneAddr, 0)
    ELSE IF LE16(m, 0) = AF_INET
    THEN Decoded(Some(DecodeV4(m)), 8)
    ELSE IF LE16(m, 0) = AF_INET6
    THEN Decoded(Some(DecodeV6(m)), SizeofSockaddrIn6)
    ELSE Decoded(NoneAddr, SizeofFamily)

\* net.rs ptrs_to_socket_addr; reads is how many leading bytes of m the
\* function loads (the family tag; the port and address of a sockaddr_in;
\* a sockaddr_in6 up to its scope id).
ptrs_to_socket_addr(m, len) ==
    IF AsUsize(len) < SizeofFamily THEN Decoded(NoneAddr, 0)
    ELSE IF LE16(m, 0) = AF_INET /\ AsUsize(len) >= SizeofSockaddrIn
    THEN Decoded(Some(DecodeV4(m)), 8)
    ELSE IF LE16(m, 0) = AF_INET6 /\ AsUsize(len) >= SizeofSockaddrIn6
    THEN Decoded(Some(DecodeV6(m)), SizeofSockaddrIn6)
    ELSE Decoded(NoneAddr, SizeofFamily)

(* --------------------------- address buffers -------------------------- *)

\* The bytes of padding after each SOCKADDR_STORAGE of an AcceptAddrsBuf.
PadLen == 16
SizeofAcceptAddrsBuf == 2 * (SizeofStorage + PadLen)
\* The offset of the field remote in the #[repr(C)] AcceptAddrsBuf.
RemoteOffset == SizeofStorage + PadLen

\* A SocketAddrBuf made by zeroing the whole structure.
SocketAddrBuf_new_AllZero ==
    [mem |-> Zeros(SizeofStorage), len |-> 0, args |-> <<>>]

\* SocketAddrBuf::new: buf zeroed, len the size of the storage.
SocketAddrBuf_new ==
    [mem |-> Zeros(SizeofStorage), len |-> SizeofStorage, args |-> <<>>]

\* AcceptAddrsBuf::new: mem::zeroed().
AcceptAddrsBuf_new == Zeros(SizeofAcceptAddrsBuf)

\* args giving both regions the size of a SOCKADDR_STORAGE, padding left out.
AcceptAddrsBuf_args_NoPad == <<0, SizeofStorage, SizeofStorage>>

\* AcceptAddrsBuf::args without the pointer: the receive-data length, the
\* local-address length and the remote-address length.
AcceptAddrsBuf_args ==
    <<0, RemoteOffset, SizeofAcceptAddrsBuf - RemoteOffset>>

\* The memory m with bytes written at offset off, and n bytes of it read
\* from offset off (99 stands for what lies past its end).
Put(m, off, bytes) ==
    [i \in 1..Len(m) |->
        IF off < i /\ i <= off + Len(bytes) THEN bytes[i - off] ELSE m[i]]
Slice(m, off, n) ==
    [i \in 1..n |-> IF off + i <= Len(m) THEN m[off + i] ELSE 99]

\* The sockets' addresses: the local one (a listener's) and the peer's
\* (a connecting or a sending socket's), of one family.
NetAddrs ==
    {V4(<<127, 0, 0, 1>>, 80), V4(<<1, 2, 3, 4>>, 258),
     V6(<<0, 0, 0, 0, 0, 0, 0, 1>>, 65535, 0, 0),
     V6(<<8193, 3512, 0, 258, 0, 0, 65535, 7>>, 258, 16909060, 5)}
SampleNets ==
    {n \in [local : NetAddrs, peer : NetAddrs] :
        n.local.fam = n.peer.fam /\ n.local.port < n.peer.port}
FirstNet ==
    [local |-> V4(<<127, 0, 0, 1>>, 80), peer |-> V4(<<1, 2, 3, 4>>, 258)]

\* The kernel finishing an operation of this kind writes into the address
\* buffer ab that came with it: WSARecvFrom the sender's sockaddr and its
\* size; AcceptEx the local sockaddr after the receive-data region and the
\* remote one after the local-address region.  WSARecvFrom writes no
\* address into a buffer whose length on entry is below the address size.
AddrFill(kind, ab) ==
    IF kind = "recv_from"
    THEN IF ab.len < socket_addr_to_ptrs(net.peer).len THEN ab
         ELSE [ab EXCEPT !.mem = Put(@, 0, StdLayout(net.peer)),
                         !.len = socket_addr_to_ptrs(net.peer).len]
    ELSE IF kind = "accept"
    THEN [ab EXCEPT !.mem = Put(Put(@, ab.args[1], StdLayout(net.local)),
                                ab.args[1] + ab.args[2],
                                StdLayout(net.peer))]
    ELSE ab

\* The size of the sockaddr that starts the region m.
NameLen(m) ==
    IF Len(m) < SizeofFamily THEN 0
    ELSE IF LE16(m, 0) = AF_INET THEN SizeofSockaddrIn
    ELSE IF LE16(m, 0) = AF_INET6 THEN SizeofSockaddrIn6
    ELSE 0

\* The provider's GetAcceptExSockaddrs(buf, a[1], a[2], a[3], ..): pointers
\* to the two sockaddrs inside buf and their lengths.
GetAcceptExSockaddrs(mem, a) ==
    LET l == Slice(mem, a[1], a[2])
        r == Slice(mem, a[1] + a[2], a[3])
    IN  [local |-> l, local_len |-> NameLen(l),
         remote |-> r, remote_len |-> NameLen(r)]

NoCodec == [by |-> "none", src |-> V4(<<0, 0, 0, 0>>, 0), mem |-> <<>>,
            len |-> 0, out |-> NotCalled, reads |-> 0]

\* A caller encodes the address a to hand it to the OS.
Encode(a) ==
    /\ codec.by = "none"
    /\ codec' = [by |-> "caller", src |-> a,
                 mem |-> socket_addr_to_ptrs(a).mem,
                 len |-> socket_addr_to_ptrs(a).len, out |-> NotCalled,
                 reads |-> 0]
    /\ UNCHANGED <<ioVars, handleVars, resolveVars, connVars>>

\* The family tags the OS may leave in a buffer, and the lengths it may
\* report with it.
FamilyTags == {AF_INET, AF_INET6, 0, 1}
ReportedLens == {0, 1, SizeofFamily, SizeofSockaddrIn - 1, SizeofSockaddrIn,
                 SizeofSockaddrIn6 - 1, SizeofSockaddrIn6, SizeofStorage}

\* The OS fills a SOCKADDR_STORAGE with the bytes of the address a under
\* the family tag fam, and reports the length len.
OsFill(a, fam, len) ==
    /\ codec.by = "none"
    /\ codec' = [by |-> "os", src |-> a,
                 mem |-> HostOrder16(fam)
                            \o SubSeq(StdLayout(a), 3, Len(StdLayout(a)))
                            \o Zeros(SizeofStorage - Len(StdLayout(a))),
                 len |-> len, out |-> NotCalled, reads |-> 0]
    /\ UNCHANGED <<ioVars, handleVars, resolveVars, connVars>>

\* The caller decodes what the buffer holds.
Decode ==
    /\ codec.by # "none"
    /\ codec.out.tag = "None"
    /\ codec' = [codec EXCEPT
                    !.out = ptrs_to_socket_addr(codec.mem, codec.len).res,
                    !.reads = ptrs_to_socket_addr(codec.mem, codec.len).reads]
    /\ UNCHANGED <<ioVars, handleVars, resolveVars, connVars>>

(* ------------------------------ the kernel ----------------------------- *)

Registered(res) == reg[res] # NoReg

\* The completion packet of a finished operation, as the port hands it out.
Packet(o, ovl) == [token |-> reg[o.res].token, bytes |-> o.n, ovl |-> ovl]

\* Operation o, tracked by record ovl, finishes. x is the environment's
\* part: how many bytes the peer had sent (a receive), how many bytes went
\* out (a send).  A packet is queued when the resource has a port, whether
\* or not the call that started the operation has already returned.
Finish(ovl, o, b0, ab0, x) ==
    LET n == IF o.kind \in RecvKinds THEN Min(x, o.len)
             ELSE IF o.kind \in SendKinds THEN x ELSE 0
        done == [o EXCEPT !.st = "done", !.n = n,
                          !.k = IF o.kind \in RecvKinds THEN x ELSE 0]
    IN  /\ ops' = [ops EXCEPT ![ovl] = done]
        /\ bufs' = [bufs EXCEPT ![o.buf] =
                        IF o.kind \in RecvKinds
                        THEN Fill(b0, PeerData(x), n) ELSE b0]
        /\ abufs' = [abufs EXCEPT ![o.buf] = AddrFill(o.kind, ab0)]
        /\ wire' = [wire EXCEPT ![ovl] =
                        IF o.kind \in SendKinds THEN MemRead(b0, n) ELSE @]
        /\ IF Registered(o.res)
           THEN /\ queue' = [queue EXCEPT ![reg[o.res].port] =
                                 Append(@, Packet(done, ovl))]
                /\ notified' = [notified EXCEPT ![ovl] = @ + 1]
           ELSE UNCHANGED <<queue, notified>>

\* What the environment may pick as x when an operation of this kind and
\* length finishes.  A peer's message one byte longer than the buffer
\* stands for every longer one.
FinishChoices(kind, len) ==
    IF kind \in RecvKinds THEN 0..Min(MaxLen, len + 1)
    ELSE IF kind \in SendKinds THEN (IF len = 0 THEN {0} ELSE 1..len)
    ELSE {0}

\* The kernel's side of a call that starts an overlapped operation with the
\* arguments a; b0 is the caller's buffer as it stands at the call.
Submit(kind, a, r, b0, out) ==
    LET o == [st |-> "pending", res |-> a.sock, kind |-> kind,
              len |-> a.len, buf |-> r, n |-> 0, k |-> 0]
        ab0 == IF kind = "recv_from" THEN SocketAddrBuf_new
               ELSE IF kind = "accept"
               THEN [mem |-> AcceptAddrsBuf_new, len |-> 0,
                     args |-> <<a.len, a.llen, a.rlen>>]
               ELSE NoAddrBuf
    IN  CASE out.how = "sync" ->
                \E x \in FinishChoices(kind, a.len) :
                    Finish(a.ovl, o, b0, ab0, x)
          [] out.how = "pend" ->
                /\ ops' = [ops EXCEPT ![a.ovl] = o]
                /\ bufs' = [bufs EXCEPT ![r] = b0]
                /\ abufs' = [abufs EXCEPT ![r] = ab0]
                /\ UNCHANGED <<wire, queue, notified>>
          [] OTHER ->
                /\ bufs' = [bufs EXCEPT ![r] = b0]
                /\ abufs' = [abufs EXCEPT ![r] = ab0]
                /\ UNCHANGED <<ops, wire, queue, notified>>

\* A pending operation finishes in the kernel.
Complete(ovl) ==
    /\ ops[ovl].st = "pending"
    /\ \E x \in FinishChoices(ops[ovl].kind, ops[ovl].len) :
          Finish(ovl, ops[ovl], bufs[ops[ovl].buf], abufs[ops[ovl].buf], x)
    /\ UNCHANGED <<auxVars, debug, net, ext, reg, closed, call, waitVars>>

(* ------------------------------ the callers ---------------------------- *)

\* A caller uses its records in order, each for one call, on a resource it
\* still owns.
CanCall(r, res) ==
    /\ call[r].ret.tag = "None"
    /\ \A q \in Records : q < r => call[q].ret.tag # "None"
    /\ res \notin closed
    /\ res \in HandleRes => hnd[res].st = "owned"

\* The call made with record r returns v; os is what its OS call reported
\* (its return value and the last error it left).
Returned(r, fn, res, c, os, v) ==
    call' = [call EXCEPT ![r] = [fn |-> fn, res |-> res, cap |-> c,
                                 atreg |-> reg[res] # NoReg,
                                 os |-> os, ret |-> v]]

SockOs(out) == [ret |-> SockRet(out), err |-> out.err]
BoolOs(out) == [ret |-> BoolRet(out), err |-> out.err]

\* ReadFile's arguments in Handle::read_overlapped.
ReadFileArgs(h, buf, overlapped) ==
    [sock |-> h, len |-> Len(buf), ovl |-> overlapped]

\* WriteFile's arguments in Handle::write_overlapped.
WriteFileArgs(h, buf, overlapped) ==
    [sock |-> h, len |-> Len(buf), ovl |-> overlapped]

Handle_read_overlapped(h, c, r, out) ==
    /\ CanCall(r, h)
    /\ Submit("hread", ReadFileArgs(h, Zeroed(c), r), r, Zeroed(c), out)
    /\ Returned(r, "hread", h, c, BoolOs(out),
                HandleOverlappedResult(crate_cvt(BoolRet(out), out.err)))
    /\ UNCHANGED <<auxVars, debug, net, ext, reg, closed, waitVars>>

Handle_write_overlapped(h, c, r, out) ==
    /\ CanCall(r, h)
    /\ Submit("hwrite", WriteFileArgs(h, OwnData(c), r), r, OwnData(c), out)
    /\ Returned(r, "hwrite", h, c, BoolOs(out),
                HandleOverlappedResult(crate_cvt(BoolRet(out), out.err)))
    /\ UNCHANGED <<auxVars, debug, net, ext, reg, closed, waitVars>>

\* WSARecv told a length one short of the buffer's.
WSARecvArgs_Short(s, buf, overlapped) ==
    [sock |-> s, len |-> IF Len(buf) = 0 THEN 0 ELSE Len(buf) - 1,
     ovl |-> overlapped]

\* WSARecv handed a record that is not the caller's (a copy of it).
WSARecvArgs_Copy(s, buf, overlapped) ==
    [sock |-> s, len |-> Len(buf), ovl |-> StrayRec]

\* WSARecv's arguments in TcpStream::read_overlapped.
WSARecvArgs(s, buf, overlapped) ==
    [sock |-> s, len |-> Len(buf), ovl |-> overlapped]

\* WSASend told a length one past the buffer's.
WSASendArgs_Long(s, buf, overlapped) ==
    [sock |-> s, len |-> Len(buf) + 1, ovl |-> overlapped]

\* WSASend's arguments in TcpStream::write_overlapped.
WSASendArgs(s, buf, overlapped) ==
    [sock |-> s, len |-> Len(buf), ovl |-> overlapped]

\* WSARecvFrom's arguments in UdpSocket::recv_from_overlapped.
WSARecvFromArgs(s, buf, overlapped) ==
    [sock |-> s, len |-> Len(buf), ovl |-> overlapped]

\* WSASendTo's arguments in UdpSocket::send_to_overlapped.
WSASendToArgs(s, buf, overlapped) ==
    [sock |-> s, len |-> Len(buf), ovl |-> overlapped]

read_overlapped(s, c, r, out) ==
    /\ CanCall(r, s)
    /\ Submit("read", WSARecvArgs(s, Zeroed(c), r), r, Zeroed(c), out)
    /\ Returned(r, "read", s, c, SockOs(out), cvt(SockRet(out), out.err))
    /\ UNCHANGED <<auxVars, debug, net, ext, reg, closed, waitVars>>

write_overlapped(s, c, r, out) ==
    /\ CanCall(r, s)
    /\ Submit("write", WSASendArgs(s, OwnData(c), r), r, OwnData(c), out)
    /\ Returned(r, "write", s, c, SockOs(out), cvt(SockRet(out), out.err))
    /\ UNCHANGED <<auxVars, debug, net, ext, reg, closed, waitVars>>

recv_from_overlapped(s, c, r, out) ==
    /\ CanCall(r, s)
    /\ Submit("recv_from", WSARecvFromArgs(s, Zeroed(c), r), r, Zeroed(c), out)
    /\ Returned(r, "recv_from", s, c, SockOs(out), cvt(SockRet(out), out.err))
    /\ UNCHANGED <<auxVars, debug, net, ext, reg, closed, waitVars>>

send_to_overlapped(s, c, r, out) ==
    /\ CanCall(r, s)
    /\ Submit("send_to", WSASendToArgs(s, OwnData(c), r), r, OwnData(c), out)
    /\ Returned(r, "send_to", s, c, SockOs(out), cvt(SockRet(out), out.err))
    /\ UNCHANGED <<auxVars, debug, net, ext, reg, closed, waitVars>>

(* ------------------------------- Handle -------------------------------- *)

\* The outcomes of ReadFile / WriteFile called without an OVERLAPPED: done
\* with n bytes, or failed with a code.
SyncOutcomes(c) ==
    {[how |-> "sync", err |-> 0, n |-> n] : n \in 0..c}
        \cup {[how |-> "fail", err |-> e, n |-> 0] : e \in HandleFailCodes}

\* try!(::cvt(..)); Ok(bytes as usize)
HandleSyncResult(res, bytes) ==
    IF res.tag = "Err" THEN res ELSE Ok(bytes)

Handle_raw(h) ==
    /\ hnd[h].st = "owned"
    /\ hret' = [hret EXCEPT !["raw"] = Val(hnd[h].raw)]
    /\ UNCHANGED <<ioVars, hnd, closes, codecVars, resolveVars, connVars>>

Handle_write(h, c, out) ==
    /\ hnd[h].st = "owned"
    /\ out \in SyncOutcomes(c)
    /\ hret' = [hret EXCEPT !["write"] =
                   HandleSyncResult(crate_cvt(BoolRet(out), out.err), out.n)]
    /\ UNCHANGED <<ioVars, hnd, closes, codecVars, resolveVars, connVars>>

Handle_read(h, c, out) ==
    /\ hnd[h].st = "owned"
    /\ out \in SyncOutcomes(c)
    /\ hret' = [hret EXCEPT !["read"] =
                   HandleSyncResult(crate_cvt(BoolRet(out), out.err), out.n)]
    /\ UNCHANGED <<ioVars, hnd, closes, codecVars, resolveVars, connVars>>

\* into_raw letting the wrapper be dropped as any value going out of scope.
Handle_into_raw_NoForget(h) ==
    /\ hnd[h].st = "owned"
    /\ hret' = [hret EXCEPT !["into_raw"] = Val(hnd[h].raw)]
    /\ hnd' = [hnd EXCEPT ![h].st = "dropped", ![h].close = "ok"]
    /\ closes' = [closes EXCEPT ![hnd[h].raw] = @ + 1]
    /\ UNCHANGED <<ioVars, codecVars, resolveVars, connVars>>

\* Handle::into_raw: the raw value is returned and mem::forget keeps the
\* wrapper's Drop from running.
Handle_into_raw(h) ==
    /\ hnd[h].st = "owned"
    /\ hret' = [hret EXCEPT !["into_raw"] = Val(hnd[h].raw)]
    /\ hnd' = [hnd EXCEPT ![h].st = "released"]
    /\ UNCHANGED <<ioVars, closes, codecVars, resolveVars, connVars>>

\* A drop that calls CloseHandle again when it reports failure.
Handle_drop_Retry(h, ok) ==
    /\ hnd[h].st = "owned"
    /\ closes' = [closes EXCEPT ![hnd[h].raw] = @ + (IF ok THEN 1 ELSE 2)]
    /\ hnd' = [hnd EXCEPT ![h].st = "dropped",
                          ![h].close = IF ok THEN "ok" ELSE "failed"]
    /\ hret' = [hret EXCEPT !["drop"] = Unit]
    /\ closed' = closed \cup {h}
    /\ UNCHANGED <<debug, net, ext, reg, portRet, call, kernelVars, ndeliv, status,
                   codecVars, resolveVars, connVars>>

\* impl Drop for Handle: CloseHandle(self.0), its BOOL (ok) discarded.
Handle_drop(h, ok) ==
    /\ hnd[h].st = "owned"
    /\ closes' = [closes EXCEPT ![hnd[h].raw] = @ + 1]
    /\ hnd' = [hnd EXCEPT ![h].st = "dropped",
                          ![h].close = IF ok THEN "ok" ELSE "failed"]
    /\ hret' = [hret EXCEPT !["drop"] = Unit]
    /\ closed' = closed \cup {h}
    /\ UNCHANGED <<debug, net, ext, reg, portRet, call, kernelVars, ndeliv, status,
                   codecVars, resolveVars, connVars>>

(* ------------------------- extension resolution ------------------------ *)

\* The outcomes of WSAIoctl(SIO_GET_EXTENSION_FUNCTION_POINTER): on success
\* it writes the provider's pointer and its size; on failure it leaves the
\* zeroed out-parameters alone.
\* ptr is the entry point of the provider of the socket asked.
IoctlFrom(ptr) ==
    {[how |-> o.how, err |-> o.err, ptr |-> ptr] : o \in SocketOutcomes}
IoctlOutcomes == IoctlFrom(ProviderPtr)
IoctlRet(io) == IF io.how = "sync" THEN io.ptr ELSE 0
IoctlBytes(io) == IF io.how = "sync" THEN 8 ELSE 0

\* get storing what it has in ret before looking at the query's result.
WsaExtension_get_StoreFirst(prev, dbg, io) ==
    IF prev # 0 /\ ~dbg
    THEN [res |-> Ok(prev), val |-> prev, queried |-> FALSE, store |-> FALSE]
    ELSE LET ret == IoctlRet(io)
             c == cvt(SockRet(io), io.err)
         IN  IF c.tag = "Err"
             THEN [res |-> c, val |-> ret, queried |-> TRUE, store |-> TRUE]
             ELSE IF dbg /\ (IoctlBytes(io) # 8 \/ ~(prev = 0 \/ prev = ret))
             THEN [res |-> Panic, val |-> prev, queried |-> TRUE,
                   store |-> FALSE]
             ELSE [res |-> Ok(ret), val |-> ret, queried |-> TRUE,
                   store |-> TRUE]

\* get returning the pointer it retrieved and storing the value it loaded.
WsaExtension_get_StorePrev(prev, dbg, io) ==
    IF prev # 0 /\ ~dbg
    THEN [res |-> Ok(prev), val |-> prev, queried |-> FALSE, store |-> FALSE]
    ELSE LET ret == IoctlRet(io)
             c == cvt(SockRet(io), io.err)
         IN  IF c.tag = "Err"
             THEN [res |-> c, val |-> prev, queried |-> TRUE, store |-> FALSE]
             ELSE IF dbg /\ (IoctlBytes(io) # 8 \/ ~(prev = 0 \/ prev = ret))
             THEN [res |-> Panic, val |-> prev, queried |-> TRUE,
                   store |-> FALSE]
             ELSE [res |-> Ok(ret), val |-> prev, queried |-> TRUE,
                   store |-> TRUE]

\* WsaExtension::get from its load to its return: prev is the value loaded,
\* queried whether WSAIoctl ran, store whether self.val.store ran and val
\* the value stored (the value loaded when nothing is stored).
WsaExtension_get(prev, dbg, io) ==
    IF prev # 0 /\ ~dbg
    THEN [res |-> Ok(prev), val |-> prev, queried |-> FALSE, store |-> FALSE]
    ELSE LET ret == IoctlRet(io)
             c == cvt(SockRet(io), io.err)
         IN  IF c.tag = "Err"
             THEN [res |-> c, val |-> prev, queried |-> TRUE, store |-> FALSE]
             ELSE IF dbg /\ (IoctlBytes(io) # 8 \/ ~(prev = 0 \/ prev = ret))
             THEN [res |-> Panic, val |-> prev, queried |-> TRUE,
                   store |-> FALSE]
             ELSE [res |-> Ok(ret), val |-> ret, queried |-> TRUE,
                   store |-> TRUE]

\* The sockets get is called with, and the entry point each one's provider
\* hands out: s1 and s2 share a provider, s3 has another.
Sockets == {"s1", "s2", "s3"}
PtrOf(sock) == IF sock = "s3" THEN ProviderPtr + 64 ELSE ProviderPtr
ResolveIds == {"ACCEPTEX", "CONNECTEX"}

NoGet == [pc |-> "idle", id |-> "none", sock |-> "none", prev |-> 0,
          out |-> NotCalled, queried |-> FALSE, late |-> FALSE]
\* n: get calls started; per identifier, first: the first non-zero value a
\* call stored, ptrs: the pointers the queries returned, clean: no query
\* has reported anything but success.
NoHist == [n |-> 0,
           first |-> [g \in ExtIds |-> 0],
           ptrs |-> [g \in ExtIds |-> {}],
           clean |-> [g \in ExtIds |-> TRUE]]

\* Thread t enters get(sock) of the extension id: the load, and the return
\* of the cached value when there is one and the build is a release one.
get_load(t, id, sock) ==
    /\ gets[t].pc \in {"idle", "done"}
    /\ ghist.n < MaxGets
    /\ LET prev == ext[id]
           hit == prev # 0 /\ ~debug
       IN  gets' = [gets EXCEPT ![t] =
                       [pc |-> IF hit THEN "done" ELSE "loaded",
                        id |-> id, sock |-> sock, prev |-> prev,
                        out |-> IF hit THEN Ok(prev) ELSE NotCalled,
                        queried |-> FALSE,
                        late |-> ghist.first[id] # 0]]
    /\ ghist' = [ghist EXCEPT !.n = @ + 1]
    /\ UNCHANGED <<ioVars, handleVars, codecVars, connVars>>

\* Thread t goes on from the load: WSAIoctl answers io, and the closure
\* given to map stores and returns the pointer.
get_finish(t, io) ==
    /\ gets[t].pc = "loaded"
    /\ io.ptr = PtrOf(gets[t].sock)
    /\ LET id == gets[t].id
           g == WsaExtension_get(gets[t].prev, debug, io)
       IN  /\ gets' = [gets EXCEPT ![t].pc = "done", ![t].out = g.res,
                                   ![t].queried = g.queried]
           /\ ext' = IF g.store THEN [ext EXCEPT ![id] = g.val] ELSE ext
           /\ ghist' = [ghist EXCEPT
                 !.first[id] = IF @ = 0 /\ g.store THEN g.val ELSE @,
                 !.ptrs[id] = IF io.how = "sync" THEN @ \cup {io.ptr} ELSE @,
                 !.clean[id] = @ /\ io.how = "sync"]
    /\ UNCHANGED <<debug, net, reg, closed, portRet, call, kernelVars, ndeliv,
                   status, handleVars, codecVars, connVars>>

\* try!(X.get(..)); assert!(ptr != 0) with the assertion left out.
CheckedPtr_NoAssert(res) == res

\* try!(X.get(..)); assert!(ptr != 0): the error is returned, a zero
\* pointer (or a panic inside get) panics, a pointer is called.
CheckedPtr(res) ==
    IF res.tag = "Err" THEN res
    ELSE IF res.tag = "Panic" \/ res.val = 0 THEN Panic
    ELSE res

\* TcpBuilder::to_tcp_stream (net2): the builder gives its socket away, and
\* fails when it has none left.
to_tcp_stream(st) ==
    IF st = "taken" THEN Err(0) ELSE Ok(TRUE)

\* Result::unwrap turned into a try!: the error goes back to the caller.
unwrap_AsTry(res) == res

\* Result::unwrap: the value, or a panic on Err.
unwrap(res) == IF res.tag = "Err" THEN Panic ELSE res

\* AcceptEx's arguments in TcpListener::accept_overlapped.
AcceptExArgs(l, overlapped) ==
    [sock |-> l, len |-> AcceptAddrsBuf_args[1],
     llen |-> AcceptAddrsBuf_args[2], rlen |-> AcceptAddrsBuf_args[3],
     ovl |-> overlapped]

\* The listener accepts into the socket of the builder AccOf(r).
\* conv: whether that builder's to_tcp_stream() succeeds, as the accept
\* contract says it does.
accept_overlapped(l, r, io, out, conv) ==
    /\ CanCall(r, l)
    /\ LET g == WsaExtension_get(ext["ACCEPTEX"], debug, io)
           ptr == CheckedPtr(g.res)
           succeeded == IF BoolRet(out) = TRUE_ THEN Ok(TRUE)
                        ELSE last_err(out.err)
           stream == unwrap(to_tcp_stream(IF conv THEN bld[AccOf(r)]
                                          ELSE "taken"))
       IN  /\ ext' = IF g.store THEN [ext EXCEPT !["ACCEPTEX"] = g.val]
                     ELSE ext
           /\ IF ptr.tag # "Ok"
              THEN /\ Returned(r, "accept", l, 0, NoOs, ptr)
                   /\ UNCHANGED <<kernelVars, bld>>
              ELSE /\ Submit("accept", AcceptExArgs(l, r), r, <<>>, out)
                   /\ IF succeeded.tag = "Err"
                      THEN /\ Returned(r, "accept", l, 0, BoolOs(out),
                                       succeeded)
                           /\ UNCHANGED bld
                      ELSE IF stream.tag # "Ok"
                      THEN /\ Returned(r, "accept", l, 0, BoolOs(out),
                                       stream)
                           /\ UNCHANGED bld
                      ELSE /\ Returned(r, "accept", l, 0, BoolOs(out),
                                       Ok(succeeded.val))
                           /\ bld' = [bld EXCEPT ![AccOf(r)] = "taken"]
    /\ UNCHANGED <<handleVars, codecVars, resolveVars, parsed, debug, net, reg,
                   closed, waitVars>>

(* ------------------------- connect and parse --------------------------- *)

\* rec: the record whose AcceptAddrsBuf was parsed; args: what went to
\* GetAcceptExSockaddrs; local, remote: what AcceptAddrs::local() and
\* remote() return on the result.
NoParse == [ret |-> NotCalled, invoked |-> 0, rec |-> 0, args |-> <<>>,
            local |-> NotCalled, remote |-> NotCalled]

\* A TcpBuilder binds its socket.
bind(b) ==
    /\ b \notin closed
    /\ bld[b] = "new"
    /\ bld' = [bld EXCEPT ![b] = "bound"]
    /\ UNCHANGED <<ioVars, handleVars, codecVars, resolveVars, parsed>>

\* The flag of connect_overlapped taken from the BOOL alone.
Succeeded_NoLastErr(r, err) ==
    IF r = TRUE_ THEN Ok(TRUE) ELSE Ok(FALSE)

\* let succeeded = if r == TRUE { true } else { try!(last_err()) };
Succeeded(r, err) ==
    IF r = TRUE_ THEN Ok(TRUE) ELSE last_err(err)

\* ConnectEx's arguments in TcpBuilder::connect_overlapped.
ConnectExArgs(b, overlapped) ==
    [sock |-> b, len |-> 0, ovl |-> overlapped]

\* What ConnectEx can answer: a socket that was not bound is refused
\* (WSAEINVAL).
ConnectOutcomes(st) ==
    IF st = "bound" THEN SocketOutcomes
    ELSE {[how |-> "fail", err |-> 10022]}

\* conv: whether self.to_tcp_stream() (net2, outside this crate) gives the
\* stream or an error.
connect_overlapped(b, r, io, out, conv) ==
    /\ CanCall(r, b)
    /\ out \in ConnectOutcomes(bld[b])
    /\ IF bld[b] = "taken"
       THEN \* self.as_raw_socket() has no socket to give (net2 unwraps)
            /\ Returned(r, "connect", b, 0, NoOs, Panic)
            /\ UNCHANGED <<ext, kernelVars, bld>>
       ELSE LET g == WsaExtension_get(ext["CONNECTEX"], debug, io)
                ptr == CheckedPtr(g.res)
                succeeded == Succeeded(BoolRet(out), out.err)
                stream == to_tcp_stream(IF conv THEN bld[b] ELSE "taken")
            IN  /\ ext' = IF g.store THEN [ext EXCEPT !["CONNECTEX"] = g.val]
                          ELSE ext
                /\ IF ptr.tag # "Ok"
                   THEN /\ Returned(r, "connect", b, 0, NoOs, ptr)
                        /\ UNCHANGED <<kernelVars, bld>>
                   ELSE /\ Submit("connect", ConnectExArgs(b, r), r, <<>>, out)
                        /\ IF succeeded.tag = "Err"
                           THEN /\ Returned(r, "connect", b, 0,
                                            BoolOs(out), succeeded)
                                /\ UNCHANGED bld
                           ELSE IF stream.tag = "Err"
                           THEN /\ Returned(r, "connect", b, 0,
                                            BoolOs(out), stream)
                                /\ UNCHANGED bld
                           ELSE /\ Returned(r, "connect", b, 0,
                                            BoolOs(out), Ok(succeeded.val))
                                /\ bld' = [bld EXCEPT ![b] = "taken"]
    /\ UNCHANGED <<debug, net, reg, closed, waitVars, handleVars, codecVars,
                   resolveVars, parsed>>

\* The AcceptAddrsBuf that goes with record r: the one its accept call
\* passed, or one fresh from AcceptAddrsBuf::new.
AcceptAddrsBufOf(r) ==
    IF abufs[r].args # <<>> THEN abufs[r].mem ELSE AcceptAddrsBuf_new

\* AcceptAddrs::local and AcceptAddrs::remote on what parse returned.
AcceptAddrs_local(ret) == ptrs_to_socket_addr(ret.local, ret.local_len).res
AcceptAddrs_remote_AsLocal(ret) ==
    ptrs_to_socket_addr(ret.local, ret.local_len).res
AcceptAddrs_remote(ret) ==
    ptrs_to_socket_addr(ret.remote, ret.remote_len).res

\* AcceptAddrsBuf::parse(listener) on the buffer of record r: resolves
\* GetAcceptExSockaddrs and calls it; then AcceptAddrs::local / remote.
parse(r, l, io) ==
    /\ l \notin closed
    /\ call[r].fn \in {"none", "accept"}
    /\ LET g == WsaExtension_get(ext["GETACCEPTEXSOCKADDRS"], debug, io)
           ptr == CheckedPtr(g.res)
           a == AcceptAddrsBuf_args
           ret == GetAcceptExSockaddrs(AcceptAddrsBufOf(r), a)
       IN  /\ ext' = IF g.store
                     THEN [ext EXCEPT !["GETACCEPTEXSOCKADDRS"] = g.val]
                     ELSE ext
           /\ parsed' =
                 IF ptr.tag # "Ok"
                 THEN [NoParse EXCEPT !.ret = ptr, !.rec = r]
                 ELSE [ret |-> Ok(TRUE), invoked |-> 1, rec |-> r,
                       args |-> a,
                       local |-> AcceptAddrs_local(ret),
                       remote |-> AcceptAddrs_remote(ret)]
    /\ UNCHANGED <<debug, net, reg, closed, portRet, call, kernelVars, ndeliv,
                   status, handleVars, codecVars, resolveVars, bld>>

SocketAddrBufOf_Fresh(r) == SocketAddrBuf_new

\* The SocketAddrBuf that goes with record r: the one its recv_from call
\* passed, or one fresh from SocketAddrBuf::new.
SocketAddrBufOf(r) ==
    IF call[r].fn = "recv_from" THEN abufs[r] ELSE SocketAddrBuf_new

\* SocketAddrBuf::to_socket_addr on the buffer of record r.
to_socket_addr(r) ==
    /\ call[r].fn \in {"none", "recv_from"}
    /\ LET b == SocketAddrBufOf(r)
       IN  codec' = [by |-> "buf", src |-> net.peer, mem |-> b.mem,
                     len |-> b.len,
                     out |-> ptrs_to_socket_addr(b.mem, b.len).res,
                     reads |-> ptrs_to_socket_addr(b.mem, b.len).reads]
    /\ UNCHANGED <<ioVars, handleVars, resolveVars, connVars>>

(* --------------------------- the completion port ----------------------- *)

\* A registration that replaces the association an open resource has.
Register_Rebind(p, res, tok) ==
    /\ IF res \in closed
       THEN /\ portRet' = [fn |-> "add", out |-> "Err"]
            /\ UNCHANGED reg
       ELSE /\ portRet' = [fn |-> "add", out |-> "Ok"]
            /\ reg' = [reg EXCEPT ![res] = [port |-> p, token |-> tok]]
    /\ UNCHANGED <<auxVars, debug, net, ext, closed, call, kernelVars, ndeliv, status>>

\* CompletionPort::add_handle / add_socket: the resource joins port p under
\* token tok, once in its life and only while it is open.
Register(p, res, tok) ==
    /\ IF res \in closed \/ Registered(res)
       THEN /\ portRet' = [fn |-> "add", out |-> "Err"]
            /\ UNCHANGED reg
       ELSE /\ portRet' = [fn |-> "add", out |-> "Ok"]
            /\ reg' = [reg EXCEPT ![res] = [port |-> p, token |-> tok]]
    /\ UNCHANGED <<auxVars, debug, net, ext, closed, call, kernelVars, ndeliv, status>>

\* The owner of a resource drops it once nothing is in flight on it.
Close(res) ==
    /\ res \notin closed
    /\ \A r \in AllRecs : ~(ops[r].st = "pending" /\ ops[r].res = res)
    /\ IF res \in HandleRes
       THEN \E ok \in BOOLEAN : Handle_drop(res, ok)
       ELSE /\ closed' = closed \cup {res}
            /\ UNCHANGED <<auxVars, debug, net, ext, reg, call, kernelVars,
                           waitVars>>

Remove(q, i) == SubSeq(q, 1, i - 1) \o SubSeq(q, i + 1, Len(q))

\* A wait that reads a packet and leaves it in the queue.
Wait_Peek(t, p, timed) ==
    \/ \E i \in 1..Len(queue[p]) :
          LET pk == queue[p][i]
          IN  /\ status' = [status EXCEPT ![pk.ovl] =
                               [token |-> pk.token, bytes |-> pk.bytes,
                                ovl |-> pk.ovl, by |-> t]]
              /\ ndeliv' = [ndeliv EXCEPT ![pk.ovl] = @ + 1]
              /\ portRet' = [fn |-> "get", out |-> "Status"]
              /\ UNCHANGED <<auxVars, debug, net, ext, reg, closed, call, kernelVars>>
    \/ /\ queue[p] = <<>>
       /\ timed
       /\ portRet' = [fn |-> "get", out |-> "Timeout"]
       /\ UNCHANGED <<auxVars, debug, net, ext, reg, closed, call, kernelVars, ndeliv,
                      status>>

\* A wait that reports an elapsed timeout as any other failure.
Wait_TimeoutAsErr(t, p, timed) ==
    \/ \E i \in 1..Len(queue[p]) :
          LET pk == queue[p][i]
          IN  /\ queue' = [queue EXCEPT ![p] = Remove(@, i)]
              /\ status' = [status EXCEPT ![pk.ovl] =
                               [token |-> pk.token, bytes |-> pk.bytes,
                                ovl |-> pk.ovl, by |-> t]]
              /\ ndeliv' = [ndeliv EXCEPT ![pk.ovl] = @ + 1]
              /\ portRet' = [fn |-> "get", out |-> "Status"]
              /\ UNCHANGED <<auxVars, debug, net, ext, reg, closed, call, bufs, abufs, ops, wire,
                             notified>>
    \/ /\ queue[p] = <<>>
       /\ timed
       /\ portRet' = [fn |-> "get", out |-> "Err"]
       /\ UNCHANGED <<auxVars, debug, net, ext, reg, closed, call, kernelVars, ndeliv,
                      status>>

\* CompletionPort::get on thread t: takes one packet off port p (the OS
\* picks which), or times out when timed and nothing is queued; with no
\* timeout and nothing queued the thread stays blocked.
Wait(t, p, timed) ==
    \/ \E i \in 1..Len(queue[p]) :
          LET pk == queue[p][i]
          IN  /\ queue' = [queue EXCEPT ![p] = Remove(@, i)]
              /\ status' = [status EXCEPT ![pk.ovl] =
                               [token |-> pk.token, bytes |-> pk.bytes,
                                ovl |-> pk.ovl, by |-> t]]
              /\ ndeliv' = [ndeliv EXCEPT ![pk.ovl] = @ + 1]
              /\ portRet' = [fn |-> "get", out |-> "Status"]
              /\ UNCHANGED <<auxVars, debug, net, ext, reg, closed, call, bufs, abufs, ops, wire,
                             notified>>
    \/ /\ queue[p] = <<>>
       /\ timed
       /\ portRet' = [fn |-> "get", out |-> "Timeout"]
       /\ UNCHANGED <<auxVars, debug, net, ext, reg, closed, call, kernelVars, ndeliv,
                      status>>

(* ---------------------------- specification ---------------------------- *)

CodecInit == codec = NoCodec
ResolveInit == gets = [t \in Threads |-> NoGet] /\ ghist = NoHist
ConnInit ==
    /\ bld = [b \in BuilderRes \cup AcceptSocks |-> "new"]
    /\ parsed = NoParse
NetInit(nets) == net \in nets
AuxInit ==
    /\ HandleInit({FirstRaw}) /\ CodecInit /\ ResolveInit /\ ConnInit
    /\ NetInit({FirstNet})

Init == IoInit /\ AuxInit

\* The overlapped calls made with the records recs and buffers of the
\* lengths lens.
Calls(recs, lens) ==
    \/ \E r \in recs, c \in lens :
          \/ \E h \in HandleRes, out \in HandleOutcomes :
                \/ Handle_read_overlapped(h, c, r, out)
                \/ Handle_write_overlapped(h, c, r, out)
          \/ \E s \in StreamRes, out \in SocketOutcomes :
                \/ read_overlapped(s, c, r, out)
                \/ write_overlapped(s, c, r, out)
          \/ \E s \in DgramRes, out \in SocketOutcomes :
                \/ recv_from_overlapped(s, c, r, out)
                \/ send_to_overlapped(s, c, r, out)
    \/ \E r \in recs, l \in ListenRes, io \in IoctlOutcomes,
          out \in SocketOutcomes, conv \in BOOLEAN :
          accept_overlapped(l, r, io, out, conv)

\* The kernel finishing operations, and the registrations and waits made
\* on the ports ps with the tokens toks by the threads ths.
Port(ps, toks, ths) ==
    \/ \E ovl \in AllRecs : Complete(ovl)
    \/ \E p \in ps, res \in Resources, tok \in toks : Register(p, res, tok)
    \/ \E t \in ths, p \in ps, timed \in BOOLEAN : Wait(t, p, timed)

Next ==
    \/ Calls(Records, 0..MaxLen)
    \/ Port(Ports, Tokens, Threads)
    \/ \E res \in Resources : Close(res)

Spec == Init /\ [][Next]_vars

\* Calls on one record after another with buffers of every length, one
\* thread waiting on one port: the byte counts, buffer contents and tokens
\* of each transfer.
XferNext == Calls(1..XferOps, 0..MaxLen) \/ Port({"p1"}, Tokens, {"t1"})
XferSpec == Init /\ [][XferNext]_vars

\* Calls on several records with empty buffers, several threads waiting on
\* one port: the operations in flight together and their completions.
ConcNext == Calls(Records, {0}) \/ Port({"p1"}, {1}, Threads)
ConcSpec == Init /\ [][ConcNext]_vars

\* The same, with the kernel bringing every pending operation to its end
\* (the peer sends, connects or goes away).
ConcFair == ConcSpec /\ \A ovl \in AllRecs : WF_vars(Complete(ovl))

\* One-record calls with empty buffers, several ports, and owners that drop
\* their resources: the life of a registration.
LifeNext ==
    \/ Calls(1..XferOps, {0})
    \/ Port(Ports, Tokens, {"t1"})
    \/ \E res \in Resources : Close(res)
LifeSpec == Init /\ [][LifeNext]_vars

\* The life of one Handle created with any of the raw values: its methods
\* in any order and number, then into_raw or the drop.
HandleSpecInit ==
    /\ IoInitIn({HandleRes})
    /\ HandleInit(RawHandles) /\ CodecInit /\ ResolveInit /\ ConnInit
    /\ NetInit({FirstNet})
HandleNext ==
    \/ \E h \in HandleRes :
          \/ Handle_raw(h)
          \/ \E c \in 0..MaxLen, out \in SyncOutcomes(MaxLen) :
                \/ Handle_read(h, c, out)
                \/ Handle_write(h, c, out)
          \/ Handle_into_raw(h)
          \/ \E ok \in BOOLEAN : Handle_drop(h, ok)
          \/ \E r \in 1..XferOps, out \in HandleOutcomes :
                \/ Handle_read_overlapped(h, 0, r, out)
                \/ Handle_write_overlapped(h, 0, r, out)
    \/ \E ovl \in AllRecs : Complete(ovl)
HandleSpec == HandleSpecInit /\ [][HandleNext]_vars

\* Addresses encoded by a caller or written by the OS, then decoded.
CodecSpecInit == IoInitIn({DgramRes}) /\ AuxInit
CodecNext ==
    \/ \E a \in SampleAddrs : Encode(a)
    \/ \E a \in SampleAddrs, fam \in FamilyTags, len \in ReportedLens :
          OsFill(a, fam, len)
    \/ Decode
CodecSpec == CodecSpecInit /\ [][CodecNext]_vars

\* Threads resolving extensions through sockets of two providers, in
\* either build.
ResolveSpecInit == IoInitIn({ListenRes}) /\ AuxInit
ResolveNext ==
    \/ \E t \in Threads, id \in ResolveIds, sock \in Sockets :
          get_load(t, id, sock)
    \/ \E t \in Threads, sock \in Sockets :
          \E io \in IoctlFrom(PtrOf(sock)) : get_finish(t, io)
ResolveSpec == ResolveSpecInit /\ [][ResolveNext]_vars

\* A builder connecting and a listener accepting and parsing while the
\* kernel finishes what they started; the provider hands out its entry
\* point or, breaking its contract, a null one.
ConnIoctl == IoctlOutcomes \cup IoctlFrom(0)
ConnSpecInit == IoInitIn({BuilderRes \cup ListenRes}) /\ AuxInit
ConnNext ==
    \/ \E b \in BuilderRes : bind(b)
    \/ \E b \in BuilderRes, r \in 1..XferOps, io \in ConnIoctl,
          out \in ConnectOutcomes("bound") \cup ConnectOutcomes("new"),
          conv \in BOOLEAN :
          connect_overlapped(b, r, io, out, conv)
    \/ \E r \in 1..XferOps, l \in ListenRes, io \in ConnIoctl,
          out \in SocketOutcomes, conv \in BOOLEAN :
          accept_overlapped(l, r, io, out, conv)
    \/ \E r \in 1..XferOps, l \in ListenRes, io \in ConnIoctl :
          parse(r, l, io)
    \/ \E ovl \in AllRecs : Complete(ovl)
ConnSpec == ConnSpecInit /\ [][ConnNext]_vars

\* A datagram socket receiving from a peer, or a listener accepting a
\* peer and parsing the addresses, for several pairs of addresses; one
\* thread waits on the port.
AddrSpecInit ==
    /\ IoInitIn({DgramRes, ListenRes})
    /\ HandleInit({FirstRaw}) /\ CodecInit /\ ResolveInit /\ ConnInit
    /\ NetInit(SampleNets)
AddrIoctl == {io \in IoctlOutcomes : io.how = "sync"}
AddrNext ==
    \/ \E s \in DgramRes, c \in {MaxLen - 1, MaxLen}, r \in 1..XferOps,
          out \in SocketOutcomes : recv_from_overlapped(s, c, r, out)
    \/ \E r \in 1..XferOps : to_socket_addr(r)
    \/ \E r \in 1..XferOps, l \in ListenRes, io \in AddrIoctl,
          out \in SocketOutcomes : accept_overlapped(l, r, io, out, TRUE)
    \/ \E r \in 1..XferOps, l \in ListenRes, io \in AddrIoctl :
          call[r].fn = "accept" /\ parse(r, l, io)
    \/ \E ovl \in 1..XferOps : Complete(ovl)
    \/ \E res \in DgramRes \cup ListenRes :
          ~Registered(res) /\ Register("p1", res, 1)
    \/ \E timed \in BOOLEAN : Wait("t1", "p1", timed)
AddrSpec == AddrSpecInit /\ [][AddrNext]_vars

(* -------------------------------- claims ------------------------------- *)

HandleFns == {"hread", "hwrite"}
SocketFns == {"read", "write", "recv_from", "send_to"}
Delivered(r) == status[r] # NoStatus
\* How many packets naming record r sit in the ports' queues.
Queued(r) ==
    Cardinality({pi \in Ports \X (1..MaxOps + 1) :
                    /\ pi[2] <= Len(queue[pi[1]])
                    /\ queue[pi[1]][pi[2]].ovl = r})

\* C1: Handle::read_overlapped and write_overlapped return Ok(true) when
\* ReadFile / WriteFile reports success, Ok(false) when it reports failure
\* and the last error is ERROR_IO_PENDING, and Err with the last error as it
\* is for every other code; they return nothing else.
C1_HandleThreeOutcomes ==
    \A r \in Records :
        call[r].fn \in HandleFns =>
            LET c == call[r]
            IN  /\ c.ret.tag \in {"Ok", "Err"}
                /\ c.os.ret # 0 => IsOk(c.ret, TRUE)
                /\ (c.os.ret = 0 /\ c.os.err = ERROR_IO_PENDING)
                      => IsOk(c.ret, FALSE)
                /\ (c.os.ret = 0 /\ c.os.err # ERROR_IO_PENDING)
                      => (c.ret.tag = "Err" /\ c.ret.code = c.os.err)

C1_Witness ==
    /\ call[1].fn = "hread" /\ IsOk(call[1].ret, FALSE)
    /\ call[2].fn = "hwrite" /\ call[2].ret.tag = "Err"
    /\ call[2].ret.code = 109

\* C2: the four socket calls return Ok(true) when the Winsock call does not
\* return SOCKET_ERROR, Ok(false) when it does and the last socket error is
\* WSA_IO_PENDING, and Err with that last error as it is for any other code.
C2_SocketThreeOutcomes ==
    \A r \in Records :
        call[r].fn \in SocketFns =>
            LET c == call[r]
            IN  /\ c.ret.tag \in {"Ok", "Err"}
                /\ c.os.ret # SOCKET_ERROR => IsOk(c.ret, TRUE)
                /\ (c.os.ret = SOCKET_ERROR /\ c.os.err = WSA_IO_PENDING)
                      => IsOk(c.ret, FALSE)
                /\ (c.os.ret = SOCKET_ERROR /\ c.os.err # WSA_IO_PENDING)
                      => (c.ret.tag = "Err" /\ c.ret.code = c.os.err)

C2_Witness ==
    /\ call[1].fn = "recv_from" /\ IsOk(call[1].ret, FALSE)
    /\ call[2].fn = "send_to" /\ call[2].ret.tag = "Err"
    /\ call[2].ret.code = 10054

\* The call made with record r returned Ok on a resource that had a port.
Accepted(r) == call[r].ret.tag = "Ok" /\ call[r].atreg

\* C3: once an overlapped call on a registered resource has returned
\* Ok(true) or Ok(false), one completion packet for its record comes to be
\* queued on the port, and never a second one; after Ok(true) the packet is
\* there already.
C3_OneNotification ==
    /\ \A r \in Records : Accepted(r) ~> (notified[r] = 1)
    /\ [](\A r \in AllRecs : notified[r] <= 1)
    /\ [](\A r \in Records :
            (Accepted(r) /\ call[r].ret.val) => notified[r] = 1)

C3_Witness ==
    /\ Accepted(1) /\ call[1].ret.val /\ notified[1] = 1
    /\ Accepted(2) /\ ~call[2].ret.val /\ notified[2] = 1

\* C4: when a stream or datagram overlapped call or accept_overlapped has
\* returned Err, the kernel tracks no operation on its record and the port
\* neither holds nor has handed out a completion for it.
C4_ErrEnqueuesNothing ==
    \A r \in Records :
        (call[r].fn \in SocketFns \cup {"accept"} /\ call[r].ret.tag = "Err")
            => /\ ops[r].st = "free"
               /\ notified[r] = 0
               /\ Queued(r) = 0
               /\ ndeliv[r] = 0

C4_Witness ==
    /\ call[1].fn = "accept" /\ call[1].ret.tag = "Err" /\ call[1].atreg
    /\ call[1].os # NoOs
    /\ call[2].fn = "accept" /\ Delivered(2)

\* C5: the status delivered for a write_overlapped or send_to_overlapped
\* of an N-byte buffer on a resource registered under token T reports T and
\* a byte count equal to what went onto the wire, which is the buffer's
\* first bytes and never more than N; with all N bytes sent it reports N.
C5_SendStatus ==
    \A r \in Records :
        (Delivered(r) /\ call[r].fn \in {"write", "send_to"}) =>
            LET n == status[r].bytes
            IN  /\ n = Len(wire[r])
                /\ n <= call[r].cap
                /\ wire[r] = SubSeq(OwnData(call[r].cap), 1, n)
                /\ status[r].token = reg[call[r].res].token
                /\ status[r].token \in Tokens

C5_Witness ==
    /\ call[1].fn = "send_to" /\ call[1].cap = MaxLen
    /\ IsOk(call[1].ret, FALSE)
    /\ Delivered(1) /\ status[1].bytes = MaxLen /\ status[1].token = 2

\* C6: every status a wait hands out, and every packet still queued, names
\* the record of a call that did issue its operation: the record is one the
\* program passed, the call did not return Err, the operation is that
\* call's, and the token and byte count are that operation's.
C6_StatusNamesIssuedRecord ==
    /\ \A ovl \in AllRecs :
          Delivered(ovl) =>
              /\ ovl \in Records
              /\ status[ovl].ovl = ovl
              /\ call[ovl].fn # "none"
              /\ call[ovl].ret.tag # "Err"
              /\ ops[ovl].st = "done"
              /\ ops[ovl].kind = call[ovl].fn
              /\ ops[ovl].res = call[ovl].res
              /\ status[ovl].bytes = ops[ovl].n
              /\ status[ovl].token = reg[call[ovl].res].token
    /\ \A p \in Ports : \A i \in 1..Len(queue[p]) :
          /\ queue[p][i].ovl \in Records
          /\ call[queue[p][i].ovl].ret.tag # "Err"
          /\ ops[queue[p][i].ovl].st = "done"

C6_Witness ==
    /\ call[1].fn = "read" /\ ops[1].st = "pending"
    /\ call[2].fn = "read" /\ Delivered(2) /\ status[2].ovl = 2

\* C7: when the peer sent K bytes and K is at most the capacity C of the
\* buffer given to read_overlapped / recv_from_overlapped, the delivered
\* status reports K bytes and the first K bytes of the buffer are the
\* bytes sent; the buffer keeps its length C.
C7_RecvFillsPrefix ==
    \A r \in Records :
        (/\ Delivered(r)
         /\ call[r].fn \in {"read", "recv_from"}
         /\ ops[r].k <= call[r].cap) =>
            /\ status[r].bytes = ops[r].k
            /\ Len(bufs[r]) = call[r].cap
            /\ SubSeq(bufs[r], 1, ops[r].k) = PeerData(ops[r].k)

C7_Witness ==
    /\ call[1].fn = "recv_from" /\ call[1].cap = MaxLen
    /\ Delivered(1) /\ ops[1].k = MaxLen - 1
    /\ status[1].bytes = MaxLen - 1
    /\ bufs[1][1] = PeerData(1)[1] /\ bufs[1][MaxLen] = 0

\* C8: with several threads waiting on one port, each completion is handed
\* to at most one wait, and every completion the kernel posted is either
\* still queued or has been handed out.
C8_DeliveredOnce ==
    \A r \in AllRecs :
        /\ ndeliv[r] <= 1
        /\ ndeliv[r] + Queued(r) = notified[r]
        /\ ndeliv[r] = 1 <=> Delivered(r)

C8_Witness ==
    /\ Delivered(1) /\ status[1].by = "t2"
    /\ Delivered(2) /\ status[2].by = "t1"
    /\ ndeliv[1] = 1 /\ ndeliv[2] = 1

\* C9: a wait with a finite timeout on a port with nothing queued returns
\* Timeout, which is not the outcome of a failed call, and changes nothing
\* of the port, its registrations or the operations in flight.
C9_TimeoutChangesNothing ==
    [][\A t \in Threads : \A p \in Ports :
          (queue[p] = <<>> /\ Wait(t, p, TRUE)) =>
              /\ portRet'.fn = "get"
              /\ portRet'.out = "Timeout"
              /\ portRet'.out # "Err"
              /\ UNCHANGED <<reg, closed, call, kernelVars, ndeliv, status>>
      ]_vars

C9_Witness ==
    /\ portRet = [fn |-> "get", out |-> "Timeout"]
    /\ \E r \in Records : ops[r].st = "pending" /\ Registered(ops[r].res)

\* C10: a resource has at most one port and one token in its life: a
\* registration never changes, and registering a resource that is
\* registered already, or closed, returns an error and leaves every
\* association as it was.
C10_RegisterOnce ==
    /\ [][\A res \in Resources :
             Registered(res) => reg'[res] = reg[res]]_vars
    /\ [][\A p \in Ports : \A res \in Resources : \A tok \in Tokens :
             ((Registered(res) \/ res \in closed) /\ Register(p, res, tok))
                 => (portRet'.out = "Err" /\ reg' = reg)]_vars

C10_Witness ==
    /\ portRet = [fn |-> "add", out |-> "Err"]
    /\ \E res \in Resources : Registered(res) /\ res \notin closed

C10_WitnessClosed ==
    /\ portRet = [fn |-> "add", out |-> "Err"]
    /\ \E res \in Resources : ~Registered(res) /\ res \in closed /\ call[1].res = res

(* ------------------------- claims on Handle ---------------------------- *)

\* Claim C11. A Handle dropped while it owns its OS handle has had that
\* handle closed exactly once and no other handle closed, whatever calls
\* failed before; the drop returns nothing even when CloseHandle reports
\* failure, and no second close follows. Until the drop nothing is closed.
C11_DropClosesOnce ==
    \A h \in HandleRes :
        /\ hnd[h].st = "dropped" =>
              /\ closes[hnd[h].raw] = 1
              /\ \A x \in RawHandles \ {hnd[h].raw} : closes[x] = 0
              /\ hnd[h].close \in {"ok", "failed"}
              /\ hret["drop"] = Unit
        /\ hnd[h].st = "owned" =>
              /\ \A x \in RawHandles : closes[x] = 0
              /\ hret["drop"] = NotCalled

\* A read, a write and an overlapped call failed, then the drop's
\* CloseHandle failed too.
C11_Witness ==
    \E h \in HandleRes :
        /\ hnd[h].st = "dropped"
        /\ hnd[h].close = "failed"
        /\ hret["read"].tag = "Err"
        /\ hret["write"].tag = "Err"
        /\ \E r \in Records : call[r].ret.tag = "Err"

\* Claim C12. into_raw returns the raw value the Handle was made with and
\* gives up ownership: the closes of that raw value made by the wrapper are
\* 0 once into_raw was called and 1 once the wrapper was dropped instead,
\* and never 2.
C12_IntoRawReleases ==
    \A h \in HandleRes :
        /\ hret["into_raw"] # NotCalled <=> hnd[h].st = "released"
        /\ hnd[h].st = "released" =>
              /\ hret["into_raw"] = Val(hnd[h].raw)
              /\ closes[hnd[h].raw] = 0
              /\ hret["drop"] = NotCalled
        /\ hret["into_raw"] = NotCalled /\ hnd[h].st # "owned" =>
              closes[hnd[h].raw] = 1
        /\ \A x \in RawHandles : closes[x] < 2

\* into_raw called on a Handle made with the second raw value, after
\* raw() and a read.
C12_Witness ==
    \E h \in HandleRes :
        /\ hnd[h].st = "released"
        /\ hnd[h].raw # FirstRaw
        /\ hret["into_raw"] = Val(hnd[h].raw)
        /\ hret["raw"] = Val(hnd[h].raw)
        /\ hret["read"].tag = "Ok"

(* --------------------- claims on the address codec --------------------- *)

\* Claim C13. Decoding the pointer and length that socket_addr_to_ptrs
\* gives for an address A yields Some(A): the same IP and port and, for
\* IPv6, the same flow-info and scope-id.
C13_RoundTrip ==
    codec.by = "caller" /\ codec.out.tag # "None" =>
        /\ codec.out.tag = "Some"
        /\ codec.out.val.fam = codec.src.fam
        /\ codec.out.val.ip = codec.src.ip
        /\ codec.out.val.port = codec.src.port
        /\ codec.out.val.flow = codec.src.flow
        /\ codec.out.val.scope = codec.src.scope

\* An IPv6 address whose port, segments, flow-info and scope-id all change
\* under a byte swap came back from the round trip.
C13_Witness ==
    /\ codec.by = "caller"
    /\ codec.out = Some(codec.src)
    /\ codec.src.fam = "V6"
    /\ codec.src.port = 258
    /\ codec.src.ip[1] = 8193
    /\ codec.src.flow = 16909060
    /\ codec.src.scope = 5

\* Claim C14. ptrs_to_socket_addr returns None, having read no byte at or
\* beyond offset len, when len is below the size of the family tag, when
\* the tag is AF_INET and len is below the size of sockaddr_in, when the
\* tag is AF_INET6 and len is below the size of sockaddr_in6, and when the
\* tag is neither.
C14_ShortOrUnknownIsNone ==
    LET fam == LE16(codec.mem, 0)
        len == codec.len
    IN  /\ codec.by # "none"
        /\ codec.out.tag # "None"
        /\ \/ len < SizeofFamily
           \/ fam = AF_INET /\ len < SizeofSockaddrIn
           \/ fam = AF_INET6 /\ len < SizeofSockaddrIn6
           \/ fam \notin {AF_INET, AF_INET6}
        => codec.out = NoneAddr /\ codec.reads <= len

\* A buffer tagged AF_INET6 and reported one byte short of a sockaddr_in6
\* (long enough for a sockaddr_in) decoded to None.
C14_Witness ==
    /\ codec.by = "os"
    /\ LE16(codec.mem, 0) = AF_INET6
    /\ codec.len = SizeofSockaddrIn6 - 1
    /\ codec.out = NoneAddr
    /\ codec.reads = SizeofFamily

(* ------------------ claims on the extension resolver ------------------- *)

\* The calls of get that are in progress or have returned.
Started(t) == gets[t].pc # "idle"
Returned_get(t) == gets[t].pc = "done"

\* Claim C15. In a release build, a call of get for an identifier that
\* starts after some call for that identifier has succeeded and stored a
\* non-zero pointer returns that pointer and runs no WSAIoctl, whatever
\* socket it is given.
C15_CachedAfterFirstStore ==
    ~debug =>
        \A t \in Threads :
            Started(t) /\ gets[t].late =>
                /\ Returned_get(t)
                /\ ~gets[t].queried
                /\ gets[t].out = Ok(ghist.first[gets[t].id])

\* Claim C16. When the WSAIoctl of get fails with a code other than the
\* pending one, get returns Err with that code and no pointer, and the
\* cached value of the identifier stays as it was, for every such code.
C16_FailureLeavesCache ==
    [][\A t \in Threads, sock \in Sockets :
          \A io \in IoctlFrom(PtrOf(sock)) :
              io.how = "fail" /\ get_finish(t, io) =>
                  /\ gets'[t].out = Err(io.err)
                  /\ gets'[t].queried
                  /\ ext' = ext]_vars

\* A query failed after another call had cached the pointer: the call
\* returned Err and the pointer is still cached.
C16_Witness ==
    \E t \in Threads :
        /\ Returned_get(t)
        /\ gets[t].queried
        /\ gets[t].out.tag = "Err"
        /\ gets[t].out.code \in SocketFailCodes
        /\ ext[gets[t].id] = ProviderPtr

\* Claim C17. While every query for an identifier has succeeded with the
\* one pointer P of a provider, every call of get for it that has
\* returned, on any socket and in any interleaving with the others, has
\* returned P, the slot never holds anything but 0 or P, and it holds P as
\* soon as one query has succeeded.
C17_OnePointerAgreed ==
    \A id \in ResolveIds :
        ghist.clean[id] /\ ghist.ptrs[id] \subseteq {ProviderPtr} =>
            /\ \A t \in Threads :
                  Returned_get(t) /\ gets[t].id = id =>
                      gets[t].out = Ok(ProviderPtr)
            /\ ext[id] \in {0, ProviderPtr}
            /\ ghist.ptrs[id] # {} =>
                  /\ ext[id] = ProviderPtr
                  /\ ghist.first[id] = ProviderPtr

\* Two threads, on two sockets of the provider, both loaded the empty slot,
\* both queried and both stored; a third call has started as well.
C17_Witness ==
    \E id \in ResolveIds :
        /\ ghist.clean[id]
        /\ ghist.ptrs[id] = {ProviderPtr}
        /\ ghist.n >= 3
        /\ ext[id] = ProviderPtr
        /\ \A t \in Threads :
              /\ Returned_get(t) /\ gets[t].id = id
              /\ gets[t].prev = 0 /\ gets[t].queried
              /\ gets[t].out = Ok(ProviderPtr)
        /\ \E t, u \in Threads : gets[t].sock # gets[u].sock

\* Claim C18. In a debug build every call of get runs the WSAIoctl, cached
\* value or not, and a query that retrieves a pointer other than the
\* non-zero pointer cached at that moment ends in a failed assertion: the
\* pointer is not returned and the cache is not overwritten.
C18_DebugRechecks ==
    [][debug =>
          \A t \in Threads, sock \in Sockets :
              \A io \in IoctlFrom(PtrOf(sock)) :
                  get_finish(t, io) =>
                      /\ gets'[t].queried
                      /\ io.how = "sync" /\ ext[gets[t].id] \notin {0, io.ptr}
                            => gets'[t].out = Panic /\ ext' = ext]_vars

(* ------------------ claims on connect, accept and parse ---------------- *)

\* get's answer to a call made now with the query outcome io is a zero
\* pointer.
YieldsZero(id, io) ==
    LET g == WsaExtension_get(ext[id], debug, io)
    IN  g.res.tag = "Ok" /\ g.res.val = 0

\* Claim C19. connect_overlapped, accept_overlapped and AcceptAddrsBuf::parse
\* never call a zero pointer: when the resolution yields 0 the call ends in
\* a failed assertion before the extension is invoked, in either build, and
\* neither returns an ordinary error nor goes on.
C19_ZeroPointerAsserts ==
    [][\A io \in ConnIoctl :
          /\ \A b \in BuilderRes, r \in Records,
                out \in ConnectOutcomes("bound") \cup ConnectOutcomes("new"),
                conv \in BOOLEAN :
                /\ bld[b] # "taken"
                /\ YieldsZero("CONNECTEX", io)
                /\ connect_overlapped(b, r, io, out, conv)
                => /\ call'[r].ret = Panic
                   /\ call'[r].os = NoOs
                   /\ UNCHANGED <<kernelVars, bld>>
          /\ \A l \in ListenRes, r \in Records, out \in SocketOutcomes,
                conv \in BOOLEAN :
                /\ YieldsZero("ACCEPTEX", io)
                /\ accept_overlapped(l, r, io, out, conv)
                => /\ call'[r].ret = Panic
                   /\ call'[r].os = NoOs
                   /\ UNCHANGED kernelVars
          /\ \A l \in ListenRes, r \in Records :
                YieldsZero("GETACCEPTEXSOCKADDRS", io) /\ parse(r, l, io)
                => parsed'.ret = Panic /\ parsed'.invoked = 0]_vars

\* In a release build, where get itself asserts nothing, a connect on an
\* untouched builder and a parse both ended in the assertion with nothing
\* invoked.
C19_Witness ==
    /\ ~debug
    /\ parsed.ret = Panic /\ parsed.invoked = 0
    /\ ext["CONNECTEX"] = 0
    /\ \E r \in Records, b \in BuilderRes :
          /\ call[r].fn = "connect" /\ call[r].res = b
          /\ call[r].ret = Panic /\ call[r].os = NoOs
          /\ bld[b] = "bound"
          /\ ops[r] = NoOp

C21_AcceptOutcomes ==
    [][\A l \in ListenRes, r \in Records, io \in ConnIoctl,
          out \in SocketOutcomes, conv \in BOOLEAN :
          LET g == WsaExtension_get(ext["ACCEPTEX"], debug, io)
              resolved == g.res.tag = "Ok" /\ g.res.val # 0
              sk == AccOf(r)
          IN  resolved /\ accept_overlapped(l, r, io, out, conv) =>
                /\ out.how = "sync" /\ conv =>
                      call'[r].ret = Ok(TRUE) /\ bld'[sk] = "taken"
                /\ out.how = "pend" /\ conv =>
                      /\ call'[r].ret = Ok(FALSE) /\ bld'[sk] = "taken"
                      /\ ops'[r].st = "pending"
                /\ out.how = "fail" =>
                      /\ call'[r].ret = Err(out.err) /\ bld' = bld
                      /\ ops'[r] = NoOp
                /\ out.how # "fail" /\ ~conv =>
                      /\ call'[r].ret = Panic
                      /\ call'[r].os = BoolOs(out)
                      /\ ops'[r].st # "free"]_vars

\* AcceptEx took the operation as pending, then the conversion failed: the
\* call panicked with the accept in flight.
C21_Witness ==
    \E r \in Records :
        /\ call[r].fn = "accept"
        /\ call[r].ret = Panic
        /\ call[r].os.err = WSA_IO_PENDING
        /\ ops[r].st = "pending"
        /\ bld[AccOf(r)] = "new"

\* C22: once the completion of an accept_overlapped call has been taken
\* from the port, with zero bytes transferred, parsing the AcceptAddrsBuf
\* that was passed to the call gives local() = the listener's address and
\* remote() = the local address of the peer that connected.
C22_AcceptAddrs ==
    [][\A r \in Records, l \in ListenRes, io \in IoctlOutcomes :
          (/\ call[r].fn = "accept"
           /\ Delivered(r)
           /\ parse(r, l, io)
           /\ parsed'.ret.tag = "Ok") =>
              /\ status[r].bytes = 0
              /\ parsed'.local = Some(net.local)
              /\ parsed'.remote = Some(net.peer)]_vars

C22_Witness ==
    /\ call[1].fn = "accept" /\ Delivered(1) /\ status[1].bytes = 0
    /\ parsed.rec = 1 /\ parsed.invoked = 1
    /\ net.local.fam = "V6" /\ net.local # net.peer
    /\ parsed.local = Some(net.local)
    /\ parsed.remote = Some(net.peer)

C24_EmptyBufIsNone ==
    [][\A r \in Records :
          to_socket_addr(r) =>
              /\ (call[r].fn # "recv_from" \/ ops[r].st # "done") =>
                    /\ codec'.len = SizeofStorage
                    /\ Len(codec'.mem) = SizeofStorage
                    /\ codec'.out = NoneAddr
              /\ codec'.out.tag = "Some" =>
                    /\ call[r].fn = "recv_from" /\ ops[r].st = "done"
                    /\ \/ /\ LE16(codec'.mem, 0) = AF_INET
                          /\ codec'.len >= SizeofSockaddrIn
                       \/ /\ LE16(codec'.mem, 0) = AF_INET6
                          /\ codec'.len >= SizeofSockaddrIn6]_vars

C24_Witness ==
    /\ call[1].fn = "recv_from" /\ ops[1].st = "pending"
    /\ codec.by = "buf" /\ codec.len = SizeofStorage
    /\ codec.mem = abufs[1].mem /\ codec.out = NoneAddr

\* C25: the lengths AcceptAddrsBuf gives to AcceptEx and to
\* GetAcceptExSockaddrs are: receive-data length 0, local-address length =
\* the offset of the remote region, remote-address length = the size of the
\* buffer minus that offset.  Each address length is at least the size of
\* the raw address storage plus 16, the two add up to the size of the
\* buffer, and accept_overlapped and parse pass the same values.
C25_AcceptArgs ==
    LET Right(a, size) ==
            /\ a[1] = 0
            /\ a[2] = RemoteOffset
            /\ a[3] = size - RemoteOffset
            /\ a[2] >= SizeofStorage + 16
            /\ a[3] >= SizeofStorage + 16
            /\ a[2] + a[3] = size
    IN  /\ \A r \in Records :
              call[r].fn = "accept" /\ abufs[r].args # <<>> =>
                  Right(abufs[r].args, Len(abufs[r].mem))
        /\ parsed.invoked = 1 =>
              /\ Right(parsed.args, Len(AcceptAddrsBufOf(parsed.rec)))
              /\ \A r \in Records :
                    call[r].fn = "accept" /\ abufs[r].args # <<>> =>
                        parsed.args = abufs[r].args

C25_Witness ==
    /\ call[1].fn = "accept" /\ ops[1].st = "done"
    /\ abufs[1].args = <<0, 144, 144>>
    /\ parsed.invoked = 1 /\ parsed.rec = 1
    /\ parsed.args = abufs[1].args

\* C26: when connect_overlapped returns Err, the OS holds no connect on
\* the caller's overlapped record: the call returns Err only on paths on
\* which ConnectEx was not called or refused the connect.
C26_ErrLeavesNothingInFlight ==
    \A r \in Records :
        call[r].fn = "connect" /\ call[r].ret.tag = "Err" =>
            /\ ops[r] = NoOp
            /\ call[r].os = NoOs \/ call[r].os.ret # TRUE_
            /\ call[r].os # NoOs => call[r].os.err # WSA_IO_PENDING

\* C27: the cache slot of an identifier starts at 0 and, once it holds a
\* non-zero pointer, never holds anything else afterwards, whatever the
\* interleaving of the calls of get and whatever WSAIoctl answers, as long
\* as every successful query for the identifier returns the one pointer
\* of the provider.
C27_SlotMonotonic ==
    /\ \A id \in ResolveIds : ext[id] = ATOMIC_USIZE_INIT
    /\ [][\A id \in ResolveIds :
             (ext[id] # 0 /\ ghist'.ptrs[id] \subseteq {ProviderPtr}) =>
                 ext'[id] = ext[id]]_vars

====
